---- MODULE Spec2Model ----
(***************************************************************************)
(* FormGuard: the page script js/script.js of conference_registration.     *)
(*                                                                         *)
(* The script waits for document readiness, probes the environment for     *)
(* native constraint validation and, when it is there, binds a submit      *)
(* handler to the form #validate.  The handler asks the form for its       *)
(* validity, suppresses the default submit action and marks the form       *)
(* `invalid` or marks it `valid`, and then reminds the user with an alert  *)
(* when the checkbox #pay_cash is not checked.                             *)
(*                                                                         *)
(* The model keeps the page state the script reads and writes (the class   *)
(* list of the form, the console, the handlers bound to the form) and a    *)
(* record of every submit attempt: what the handler was given, which DOM   *)
(* calls it made in which order, and how the event ended.                  *)
(***************************************************************************)
EXTENDS Integers, Sequences, FiniteSets, TLC

VARIABLES
    checkValidityType,  \* typeof document.createElement('input').checkValidity
    ready,              \* the document-ready callback has run
    handlers,           \* number of submit handlers bound to #validate
    classes,            \* class list of the form element #validate
    console,            \* messages written with console.log, in order
    log                 \* one record per submit attempt, in order

vars == <<checkValidityType, ready, handlers, classes, console, log>>

\* Number of submit attempts a behaviour records.
MaxAttempts == 3

\* Classes the markup may put on the form; the marker classes `valid` and
\* `invalid` are set by the script alone.
MarkupClasses == {"form"}

\* What $('#pay_cash') can find in the page.
PayCashStates == {"checked", "unchecked", "absent"}

----------------------------------------------------------------------------
(* Capability detection                                                    *)

hasHtml5Validation_AlwaysTrue == TRUE

\* function hasHtml5Validation ()
hasHtml5Validation == checkValidityType = "function"

----------------------------------------------------------------------------
(* The submit event and the handler                                        *)

\* The event as jQuery hands it to the first handler, together with the
\* page state the handler works on.  `calls` is the order of the DOM calls
\* made so far, `prevented` the value of defaultPrevented after each check.
NewEvent ==
    [defaultPrevented |-> FALSE,
     classes          |-> classes,
     console          |-> <<>>,
     alerts           |-> 0,
     calls            |-> <<>>,
     prevented        |-> <<>>]

\* $('#pay_cash').is(":checked"): true only for an element that is there
\* and checked; an empty selection answers false.
IsChecked(payCash) == payCash = "checked"

CheckValidityStep_NoPrevent(st, formValid) ==
    LET asked == [st EXCEPT !.calls = Append(@, "checkValidity")]
        done  == IF ~formValid
                 THEN [asked EXCEPT
                         !.console = Append(@, "invalid"),
                         !.classes = @ \cup {"invalid"},
                         !.calls   = @ \o <<"console.log", "addClass:invalid">>]
                 ELSE [asked EXCEPT
                         !.console = Append(@, "valid"),
                         !.classes = @ \cup {"valid"},
                         !.calls   = @ \o <<"console.log", "addClass:valid">>]
    IN  [done EXCEPT !.prevented = Append(@, done.defaultPrevented)]

CheckValidityStep_AlwaysPrevent(st, formValid) ==
    LET asked == [st EXCEPT !.calls = Append(@, "checkValidity")]
        done  == IF ~formValid
                 THEN [asked EXCEPT
                         !.defaultPrevented = TRUE,
                         !.console = Append(@, "invalid"),
                         !.classes = @ \cup {"invalid"},
                         !.calls   = @ \o <<"preventDefault", "console.log",
                                            "addClass:invalid">>]
                 ELSE [asked EXCEPT
                         !.defaultPrevented = TRUE,
                         !.console = Append(@, "valid"),
                         !.classes = @ \cup {"valid"},
                         !.calls   = @ \o <<"preventDefault", "console.log",
                                            "addClass:valid">>]
    IN  [done EXCEPT !.prevented = Append(@, done.defaultPrevented)]

CheckValidityStep_Exclusive(st, formValid) ==
    LET asked == [st EXCEPT !.calls = Append(@, "checkValidity")]
        done  == IF ~formValid
                 THEN [asked EXCEPT
                         !.defaultPrevented = TRUE,
                         !.console = Append(@, "invalid"),
                         !.classes = (@ \ {"valid"}) \cup {"invalid"},
                         !.calls   = @ \o <<"preventDefault", "console.log",
                                            "removeClass:valid", "addClass:invalid">>]
                 ELSE [asked EXCEPT
                         !.console = Append(@, "valid"),
                         !.classes = (@ \ {"invalid"}) \cup {"valid"},
                         !.calls   = @ \o <<"console.log", "removeClass:invalid",
                                            "addClass:valid">>]
    IN  [done EXCEPT !.prevented = Append(@, done.defaultPrevented)]

\* if (!this.checkValidity()) { e.preventDefault(); console.log("invalid");
\*   $(this).addClass('invalid'); } else { console.log("valid");
\*   $(this).addClass('valid'); }
CheckValidityStep(st, formValid) ==
    LET asked == [st EXCEPT !.calls = Append(@, "checkValidity")]
        done  == IF ~formValid
                 THEN [asked EXCEPT
                         !.defaultPrevented = TRUE,
                         !.console = Append(@, "invalid"),
                         !.classes = @ \cup {"invalid"},
                         !.calls   = @ \o <<"preventDefault", "console.log",
                                            "addClass:invalid">>]
                 ELSE [asked EXCEPT
                         !.console = Append(@, "valid"),
                         !.classes = @ \cup {"valid"},
                         !.calls   = @ \o <<"console.log", "addClass:valid">>]
    IN  [done EXCEPT !.prevented = Append(@, done.defaultPrevented)]

PayCashStep_Blocking(st, payCash) ==
    LET asked == [st EXCEPT !.calls = Append(@, "is:checked")]
        done  == IF ~IsChecked(payCash)
                 THEN [asked EXCEPT
                         !.alerts = @ + 1,
                         !.defaultPrevented = TRUE,
                         !.calls  = @ \o <<"alert", "preventDefault">>]
                 ELSE asked
    IN  [done EXCEPT !.prevented = Append(@, done.defaultPrevented)]

PayCashStep_Resubmit(st, payCash) ==
    LET asked == [st EXCEPT !.calls = Append(@, "is:checked")]
        done  == IF ~IsChecked(payCash)
                 THEN [asked EXCEPT
                         !.alerts = @ + 1,
                         !.calls  = Append(@, "alert")]
                 ELSE [asked EXCEPT
                         !.defaultPrevented = FALSE,
                         !.calls  = Append(@, "form.submit")]
    IN  [done EXCEPT !.prevented = Append(@, done.defaultPrevented)]

PayCashStep_Inverted(st, payCash) ==
    LET asked == [st EXCEPT !.calls = Append(@, "is:checked")]
        done  == IF IsChecked(payCash)
                 THEN [asked EXCEPT
                         !.alerts = @ + 1,
                         !.calls  = Append(@, "alert")]
                 ELSE asked
    IN  [done EXCEPT !.prevented = Append(@, done.defaultPrevented)]

\* if (!$('#pay_cash').is(":checked")) { alert("Please click ..."); }
PayCashStep(st, payCash) ==
    LET asked == [st EXCEPT !.calls = Append(@, "is:checked")]
        done  == IF ~IsChecked(payCash)
                 THEN [asked EXCEPT
                         !.alerts = @ + 1,
                         !.calls  = Append(@, "alert")]
                 ELSE asked
    IN  [done EXCEPT !.prevented = Append(@, done.defaultPrevented)]

\* console.log("submit") opens every run of the handler.
LogSubmit(st) ==
    [st EXCEPT !.console = Append(@, "submit"),
               !.calls   = Append(@, "console.log")]

SubmitHandler_ShortCircuit(st, formValid, payCash) ==
    IF ~formValid
    THEN CheckValidityStep(LogSubmit(st), formValid)
    ELSE PayCashStep(CheckValidityStep(LogSubmit(st), formValid), payCash)

\* function (e) { ... }: the validity check, then the checkbox check.
SubmitHandler(st, formValid, payCash) ==
    PayCashStep(CheckValidityStep(LogSubmit(st), formValid), payCash)

\* jQuery calls every handler bound to the form, in order, with one event.
RECURSIVE RunHandlers(_, _, _, _)
RunHandlers(n, st, formValid, payCash) ==
    IF n = 0
    THEN st
    ELSE RunHandlers(n - 1, SubmitHandler(st, formValid, payCash),
                     formValid, payCash)

----------------------------------------------------------------------------
(* Actions                                                                 *)

DocumentReady_Repeatable ==
    /\ handlers < 2
    /\ ready' = TRUE
    /\ IF hasHtml5Validation
       THEN /\ console' = console \o <<"ready!", "has html5 validation">>
            /\ handlers' = handlers + 1
       ELSE /\ console' = Append(console, "ready!")
            /\ handlers' = handlers
    /\ UNCHANGED <<checkValidityType, classes, log>>

\* $(function() { ... }): jQuery runs the callback once, when the document
\* is ready.
DocumentReady ==
    /\ ~ready
    /\ ready' = TRUE
    /\ IF hasHtml5Validation
       THEN /\ console' = console \o <<"ready!", "has html5 validation">>
            /\ handlers' = handlers + 1
       ELSE /\ console' = Append(console, "ready!")
            /\ handlers' = handlers
    /\ UNCHANGED <<checkValidityType, classes, log>>

\* A submit attempt on #validate: the bound handlers run, and the browser
\* submits the form unless the default action was prevented.
Submit ==
    /\ Len(log) < MaxAttempts
    /\ \E formValid \in BOOLEAN, payCash \in PayCashStates :
         LET st == RunHandlers(handlers, NewEvent, formValid, payCash)
         IN  /\ classes' = st.classes
             /\ console' = console \o st.console
             /\ log' = Append(log,
                   [ready            |-> ready,
                    handlersRun      |-> handlers,
                    formValid        |-> formValid,
                    payCash          |-> payCash,
                    classesBefore    |-> classes,
                    classesAfter     |-> st.classes,
                    defaultPrevented |-> st.defaultPrevented,
                    prevented        |-> st.prevented,
                    alerts           |-> st.alerts,
                    calls            |-> st.calls,
                    submitted        |-> ~st.defaultPrevented])
    /\ UNCHANGED <<checkValidityType, ready, handlers>>

Init ==
    /\ checkValidityType \in {"function", "undefined"}
    /\ ready = FALSE
    /\ handlers = 0
    /\ classes \in SUBSET MarkupClasses
    /\ console = <<>>
    /\ log = <<>>

Next == DocumentReady \/ Submit

Spec == Init /\ [][Next]_vars

----------------------------------------------------------------------------
(* The answer-check variant of the script: the same ready callback binds a *)
(* handler that first compares the trimmed value of #captcha with a fixed  *)
(* answer and then runs the validity check.  A value is a tuple of         *)
(* characters.                                                             *)

ExpectedAnswer == <<"l", "e", "o", "p", "o", "l", "d", "2", "0", "1", "8">>

Whitespace == {" ", "\t"}

RECURSIVE TrimLeft(_)
TrimLeft(s) ==
    IF s # <<>> /\ Head(s) \in Whitespace THEN TrimLeft(Tail(s)) ELSE s

RECURSIVE TrimRight(_)
TrimRight(s) ==
    IF s # <<>> /\ s[Len(s)] \in Whitespace
    THEN TrimRight(SubSeq(s, 1, Len(s) - 1))
    ELSE s

\* Surrounding whitespace removed, inner whitespace kept.
Trim(s) == TrimRight(TrimLeft(s))

\* Values a user may leave in #captcha.
CaptchaInputs ==
    { ExpectedAnswer,
      <<" ">> \o ExpectedAnswer \o <<"\t">>,
      <<"L">> \o Tail(ExpectedAnswer),
      SubSeq(ExpectedAnswer, 1, 7) \o <<" ">> \o SubSeq(ExpectedAnswer, 8, 11),
      SubSeq(ExpectedAnswer, 1, 10),
      <<>> }

AnswerCheckStep_AlertOnly(st, captcha) ==
    LET asked == [st EXCEPT !.calls = Append(@, "val:captcha")]
        done  == IF Trim(captcha) # ExpectedAnswer
                 THEN [asked EXCEPT
                         !.alerts = @ + 1,
                         !.calls  = Append(@, "alert")]
                 ELSE asked
    IN  [done EXCEPT !.prevented = Append(@, done.defaultPrevented)]

\* Check A: on a mismatch, an alert and preventDefault.
AnswerCheckStep(st, captcha) ==
    LET asked == [st EXCEPT !.calls = Append(@, "val:captcha")]
        done  == IF Trim(captcha) # ExpectedAnswer
                 THEN [asked EXCEPT
                         !.alerts = @ + 1,
                         !.defaultPrevented = TRUE,
                         !.calls  = @ \o <<"alert", "preventDefault">>]
                 ELSE asked
    IN  [done EXCEPT !.prevented = Append(@, done.defaultPrevented)]

\* Check A, then check B.
CaptchaSubmitHandler(st, captcha, formValid) ==
    CheckValidityStep(AnswerCheckStep(LogSubmit(st), captcha), formValid)

RECURSIVE RunCaptchaHandlers(_, _, _, _)
RunCaptchaHandlers(n, st, captcha, formValid) ==
    IF n = 0
    THEN st
    ELSE RunCaptchaHandlers(n - 1, CaptchaSubmitHandler(st, captcha, formValid),
                            captcha, formValid)

\* A submit attempt on a page that runs the answer-check variant.
SubmitCaptcha ==
    /\ Len(log) < MaxAttempts
    /\ \E formValid \in BOOLEAN, captcha \in CaptchaInputs :
         LET st == RunCaptchaHandlers(handlers, NewEvent, captcha, formValid)
         IN  /\ classes' = st.classes
             /\ console' = console \o st.console
             /\ log' = Append(log,
                   [ready            |-> ready,
                    handlersRun      |-> handlers,
                    formValid        |-> formValid,
                    captcha          |-> captcha,
                    classesBefore    |-> classes,
                    classesAfter     |-> st.classes,
                    defaultPrevented |-> st.defaultPrevented,
                    prevented        |-> st.prevented,
                    alerts           |-> st.alerts,
                    calls            |-> st.calls,
                    submitted        |-> ~st.defaultPrevented])
    /\ UNCHANGED <<checkValidityType, ready, handlers>>

NextCaptcha == DocumentReady \/ SubmitCaptcha

SpecCaptcha == Init /\ [][NextCaptcha]_vars

----------------------------------------------------------------------------
(* Properties                                                              *)

\* The attempts a bound handler handled.
Intercepted == {i \in DOMAIN log : log[i].handlersRun > 0}

\* Positions of a DOM call in the call order of an attempt.
At(e, call) == {k \in DOMAIN e.calls : e.calls[k] = call}

AddClassCalls(e) == At(e, "addClass:valid") \cup At(e, "addClass:invalid")

\* C1: every intercepted submit attempt on which checkValidity() answers
\* false has its default action prevented, so the form is not submitted, and
\* leaves the form with the class `invalid`, whatever the checkbox and
\* whatever classes the form had.
C1_InvalidSuppressed ==
    \A i \in Intercepted :
        ~log[i].formValid =>
            /\ log[i].defaultPrevented
            /\ At(log[i], "preventDefault") # {}
            /\ ~log[i].submitted
            /\ "invalid" \in log[i].classesAfter

\* An invalid attempt with the checkbox checked on a form already marked
\* `valid` has been handled.
C1_Witness ==
    \E i \in Intercepted :
        /\ ~log[i].formValid
        /\ log[i].payCash = "checked"
        /\ "valid" \in log[i].classesBefore

\* C2: every intercepted submit attempt on which checkValidity() answers
\* true leaves the form with the class `valid`, and its default action is
\* not prevented: the form is submitted.
C2_ValidProceeds ==
    \A i \in Intercepted :
        log[i].formValid =>
            /\ "valid" \in log[i].classesAfter
            /\ ~log[i].defaultPrevented
            /\ At(log[i], "preventDefault") = {}
            /\ log[i].submitted

\* A valid attempt with the checkbox unchecked has been handled.
C2_Witness ==
    \E i \in Intercepted :
        /\ log[i].formValid
        /\ log[i].payCash = "unchecked"

\* C3: on every submit attempt the handler handles with #pay_cash not
\* checked the alert is shown, and the checkbox check leaves the event as
\* the validity check left it: a valid form is submitted although the
\* checkbox is unchecked.
C3_UncheckedAlertsOnly ==
    \A i \in Intercepted :
        ~IsChecked(log[i].payCash) =>
            /\ log[i].alerts >= 1
            /\ At(log[i], "alert") # {}
            /\ log[i].defaultPrevented = ~log[i].formValid
            /\ log[i].formValid => log[i].submitted

\* A valid attempt with the checkbox unchecked has shown the alert and has
\* been submitted.
C3_Witness ==
    \E i \in Intercepted :
        /\ log[i].payCash = "unchecked"
        /\ log[i].formValid
        /\ log[i].alerts = 1
        /\ log[i].submitted

\* C4: in an environment whose input elements have no checkValidity
\* function no handler is ever bound, and every submit attempt goes through
\* untouched: no call made, nothing prevented, no class added, no alert,
\* the form submitted.
C4_NoCapabilityNoHandler ==
    checkValidityType # "function" =>
        /\ handlers = 0
        /\ console \in {<<>>, <<"ready!">>}
        /\ classes \subseteq MarkupClasses
        /\ \A i \in DOMAIN log :
            /\ log[i].handlersRun = 0
            /\ log[i].calls = <<>>
            /\ ~log[i].defaultPrevented
            /\ log[i].submitted
            /\ log[i].classesAfter = log[i].classesBefore
            /\ log[i].alerts = 0

\* Without the capability, after readiness, an attempt with an invalid form
\* and an unchecked checkbox has been submitted.
C4_Witness ==
    /\ checkValidityType # "function"
    /\ ready
    /\ \E i \in DOMAIN log :
        /\ log[i].ready
        /\ ~log[i].formValid
        /\ log[i].payCash = "unchecked"
        /\ log[i].submitted

\* C5: in the answer-check variant, every submit attempt the handler
\* handles whose trimmed #captcha value differs from the expected answer
\* (compared case-sensitively) shows an alert and has its default action
\* prevented, whether or not the form is valid.
C5_WrongAnswerSuppressed ==
    \A i \in Intercepted :
        Trim(log[i].captcha) # ExpectedAnswer =>
            /\ log[i].alerts >= 1
            /\ At(log[i], "alert") # {}
            /\ log[i].defaultPrevented
            /\ ~log[i].submitted

\* A valid form with the answer in the wrong case has been stopped.
C5_Witness ==
    \E i \in Intercepted :
        /\ log[i].captcha = <<"L">> \o Tail(ExpectedAnswer)
        /\ log[i].formValid
        /\ log[i].defaultPrevented
        /\ log[i].alerts = 1

\* C6: every intercepted submit attempt runs both checks, the validity
\* check first and the checkbox check after it whichever branch was taken;
\* an invalid form with an unchecked checkbox is suppressed, marked
\* `invalid`, and then alerted.
C6_NoShortCircuit ==
    \A i \in Intercepted :
        LET e == log[i] IN
        /\ At(e, "checkValidity") # {}
        /\ At(e, "is:checked") # {}
        /\ AddClassCalls(e) # {}
        /\ \A a \in At(e, "checkValidity") \cup AddClassCalls(e) :
             \E b \in At(e, "is:checked") : a < b
        /\ (~e.formValid /\ ~IsChecked(e.payCash)) =>
             /\ e.defaultPrevented
             /\ "invalid" \in e.classesAfter
             /\ e.alerts >= 1
             /\ \A a \in At(e, "addClass:invalid") :
                  \E b \in At(e, "alert") : a < b

\* An invalid attempt with the checkbox unchecked has been handled.
C6_Witness ==
    \E i \in Intercepted :
        /\ ~log[i].formValid
        /\ log[i].payCash = "unchecked"
        /\ log[i].alerts = 1
        /\ log[i].defaultPrevented

\* C7: within one attempt, once defaultPrevented is true after a check it
\* is true after every later check and when the handler returns; at return
\* the event is prevented exactly when some check called preventDefault,
\* and the form is submitted exactly when it is not prevented.
C7_SuppressionCumulative ==
    \A i \in Intercepted :
        LET e == log[i] IN
        /\ \A j, k \in DOMAIN e.prevented :
             (j < k /\ e.prevented[j]) => e.prevented[k]
        /\ e.prevented # <<>>
        /\ e.defaultPrevented = e.prevented[Len(e.prevented)]
        /\ e.defaultPrevented <=> (At(e, "preventDefault") # {})
        /\ e.submitted <=> ~e.defaultPrevented

\* An invalid attempt with the checkbox checked has stayed suppressed.
C7_Witness ==
    \E i \in Intercepted :
        /\ ~log[i].formValid
        /\ log[i].payCash = "checked"
        /\ log[i].prevented = <<TRUE, TRUE>>
        /\ ~log[i].submitted

\* C8: no attempt removes a class: each attempt starts from the classes the
\* one before left and ends with at least those, the form carries what the
\* last attempt left, and it carries `invalid` exactly when some
\* intercepted attempt found the form invalid and `valid` exactly when some
\* intercepted attempt found it valid.
C8_ClassesAdditive ==
    /\ \A i \in DOMAIN log :
        /\ log[i].classesBefore \subseteq log[i].classesAfter
        /\ i > 1 => log[i].classesBefore = log[i - 1].classesAfter
        /\ i = Len(log) => classes = log[i].classesAfter
    /\ "invalid" \in classes <=> \E i \in Intercepted : ~log[i].formValid
    /\ "valid" \in classes <=> \E i \in Intercepted : log[i].formValid

\* An invalid attempt and then a valid one: the form carries both classes.
C8_Witness ==
    /\ {"invalid", "valid"} \subseteq classes
    /\ \E i, j \in Intercepted :
        /\ i < j
        /\ ~log[i].formValid
        /\ log[j].formValid
        /\ "invalid" \in log[j].classesAfter

\* C9: at most one handler is ever bound, and only once the ready callback
\* has run in an environment with the capability; an attempt made before
\* readiness is handled by no handler and submitted, and no attempt is
\* handled by more than one handler (at most one class addition, at most
\* one alert).
C9_OneShotInit ==
    /\ handlers <= 1
    /\ handlers = 1 => (ready /\ checkValidityType = "function")
    /\ \A i \in DOMAIN log :
        LET e == log[i] IN
        /\ ~e.ready => (e.handlersRun = 0 /\ e.calls = <<>> /\ e.submitted)
        /\ e.handlersRun <= 1
        /\ Cardinality(AddClassCalls(e)) <= 1
        /\ e.alerts <= 1
        /\ Cardinality(At(e, "alert")) <= 1

\* An attempt before readiness went through, and a later one was handled by
\* the one handler and alerted once.
C9_Witness ==
    \E i, j \in DOMAIN log :
        /\ i < j
        /\ ~log[i].ready
        /\ log[i].submitted
        /\ log[j].handlersRun = 1
        /\ log[j].alerts = 1

\* C10: two intercepted attempts that start from the same classes with the
\* same validity and differ only in whether #pay_cash is checked end with
\* the same suppression, the same submission and the same classes; the
\* alert is shown in the one that is not checked, and an attempt with a
\* checked checkbox shows no alert.
C10_CheckboxOnlyAlerts ==
    /\ \A i, j \in Intercepted :
        ( /\ log[i].classesBefore = log[j].classesBefore
          /\ log[i].formValid = log[j].formValid
          /\ IsChecked(log[i].payCash)
          /\ ~IsChecked(log[j].payCash) ) =>
            /\ log[i].defaultPrevented = log[j].defaultPrevented
            /\ log[i].submitted = log[j].submitted
            /\ log[i].classesAfter = log[j].classesAfter
            /\ log[i].alerts = 0
            /\ log[j].alerts > 0
    /\ \A i \in Intercepted :
        IsChecked(log[i].payCash) => (log[i].alerts = 0 /\ At(log[i], "alert") = {})

\* Two attempts from the same classes with the same validity, one checked
\* and one not, have been handled.
C10_Witness ==
    \E i, j \in Intercepted :
        /\ log[i].classesBefore = log[j].classesBefore
        /\ log[i].formValid = log[j].formValid
        /\ log[i].payCash = "checked"
        /\ log[j].payCash = "unchecked"

====
